---- MODULE Spec2Model ----
(***************************************************************************)
(* A model of flask_toolbox/validation.py: the validation-policy layer     *)
(* over marshmallow 2.x (Schema.load / Schema.dump returning a             *)
(* (data, errors) pair).                                                   *)
(*                                                                         *)
(* Python values are tagged records:                                       *)
(*   None          [t |-> "none"]                                          *)
(*   missing       [t |-> "missing"]      (marshmallow's sentinel)         *)
(*   str           [t |-> "str",  s |-> <<"a", "b">>]  (one char each)     *)
(*   int           [t |-> "int",  n |-> 3]                                 *)
(*   list          [t |-> "list", items |-> <<v1, v2>>]                    *)
(*   dict          [t |-> "dict", m |-> [key |-> value]]                   *)
(*   MultiDict     [t |-> "multidict", m |-> [key |-> <<v1, v2>>]]         *)
(* An error dict maps a key (a field name, or "_schema") to a list of      *)
(* messages; a message is [k |-> <message key>, arg |-> <set of names>].   *)
(* A call ends as [raised, value, msgs] (a field) or [raised, data,        *)
(* errors] (a schema): raised is "none", or the exception that left it.    *)
(***************************************************************************)
EXTENDS Integers, Sequences, FiniteSets, TLC

VARIABLES schema, last

vars == <<schema, last>>

(***************************************************************************)
(* Bounds of the model.                                                    *)
(***************************************************************************)
\* how far the length of a generated identifier string strays from ObjectIdLen
MaxDelta == 1
\* the longest list handed to a list field
MaxItems == 2

(***************************************************************************)
(* Python values.                                                          *)
(***************************************************************************)
NONE == [t |-> "none"]
MISSING == [t |-> "missing"]
StrV(s) == [t |-> "str", s |-> s]
IntV(n) == [t |-> "int", n |-> n]
ListV(xs) == [t |-> "list", items |-> xs]
DictV(m) == [t |-> "dict", m |-> m]
MultiDictV(m) == [t |-> "multidict", m |-> m]

EmptyDict == <<>>

\* dict.update: the keys of both, the second's value where both have the key
DictUpdate(d1, d2) ==
    [k \in (DOMAIN d1) \cup (DOMAIN d2) |-> IF k \in DOMAIN d2 THEN d2[k] ELSE d1[k]]

Msg(k) == [k |-> k, arg |-> {}]
MsgFor(k, names) == [k |-> k, arg |-> names]

Ok(v) == [raised |-> "none", value |-> v, msgs |-> <<>>]
Fail(ms) == [raised |-> "ValidationError", value |-> NONE, msgs |-> ms]
Crash(e) == [raised |-> e, value |-> NONE, msgs |-> <<>>]

(***************************************************************************)
(* Strings.                                                                *)
(***************************************************************************)
HexDigits ==
    {"0", "1", "2", "3", "4", "5", "6", "7", "8", "9",
     "a", "b", "c", "d", "e", "f", "A", "B", "C", "D", "E", "F"}

Digit(n) == CASE n = 0 -> "0" [] n = 1 -> "1" [] n = 2 -> "2" [] n = 3 -> "3"
              [] n = 4 -> "4" [] n = 5 -> "5" [] n = 6 -> "6" [] n = 7 -> "7"
              [] n = 8 -> "8" [] n = 9 -> "9"

RECURSIVE NatToStr(_)
NatToStr(n) == IF n < 10 THEN <<Digit(n)>> ELSE NatToStr(n \div 10) \o <<Digit(n % 10)>>

\* str(value), for the values a string field is handed here
PyStr(v) ==
    CASE v.t = "str" -> v.s
      [] v.t = "int" -> IF v.n < 0 THEN <<"-">> \o NatToStr(-v.n) ELSE NatToStr(v.n)
      [] v.t = "none" -> <<"N", "o", "n", "e">>

\* s.split(sep)
RECURSIVE PySplit(_, _)
PySplit(s, sep) ==
    IF \A i \in 1..Len(s) : s[i] # sep
    THEN <<s>>
    ELSE LET i == CHOOSE i \in 1..Len(s) : s[i] = sep /\ \A j \in 1..(i - 1) : s[j] # sep
         IN <<SubSeq(s, 1, i - 1)>> \o PySplit(SubSeq(s, i + 1, Len(s)), sep)

\* sep.join(items)
RECURSIVE PyJoin(_, _)
PyJoin(sep, items) ==
    IF Len(items) = 0 THEN <<>>
    ELSE IF Len(items) = 1 THEN items[1]
    ELSE items[1] \o <<sep>> \o PyJoin(sep, Tail(items))

(***************************************************************************)
(* The two regular expressions.  A pattern is a sequence of "h" (one       *)
(* hexadecimal character) and literal characters, followed by "$".         *)
(***************************************************************************)
ObjectIdLen == 24

Rep(c, n) == [i \in 1..n |-> c]

ObjectIdPattern == Rep("h", ObjectIdLen)

UUIDPattern ==
    Rep("h", 8) \o <<"-">> \o Rep("h", 4) \o <<"-">> \o Rep("h", 4) \o <<"-">>
        \o Rep("h", 4) \o <<"-">> \o Rep("h", 12)

\* the pattern matches s[1..Len(pat)]
PrefixMatches(pat, s) ==
    /\ Len(s) >= Len(pat)
    /\ \A i \in 1..Len(pat) : IF pat[i] = "h" THEN s[i] \in HexDigits ELSE s[i] = pat[i]

\* "$" with flags=0: the end of the string, or just before a newline that ends it
DollarAt(s, n) == Len(s) = n \/ (Len(s) = n + 1 /\ s[n + 1] = "\n")

\* re.compile(pat + "$", 0).match(s) is not None
ReMatch(pat, s) == PrefixMatches(pat, s) /\ DollarAt(s, Len(pat))

\* Regexp.__call__ through IsObjectId.__call__ / IsUUID.__call__: the value is
\* matched as str(value)
IsObjectId(value) ==
    IF ReMatch(ObjectIdPattern, PyStr(value)) THEN Ok(value)
    ELSE Fail(<<Msg("invalid_object_id")>>)

IsUUID(value) ==
    IF ReMatch(UUIDPattern, PyStr(value)) THEN Ok(value)
    ELSE Fail(<<Msg("invalid_uuid")>>)

\* marshmallow.validate.URL, reduced to its scheme check: "http://" and a host
UrlScheme == <<"h", "t", "t", "p", ":", "/", "/">>

IsURL(value) ==
    IF /\ Len(value.s) > Len(UrlScheme)
       /\ SubSeq(value.s, 1, Len(UrlScheme)) = UrlScheme
    THEN Ok(value)
    ELSE Fail(<<Msg("invalid_url")>>)

(***************************************************************************)
(* Fields.  A field is [class, required, allow_none, load_from]; load_from *)
(* is NoKey when the field declares none.  The list fields hold strings    *)
(* (their container is fields.String()).                                   *)
(***************************************************************************)
NoKey == ""

Field(class, required, allow_none, load_from) ==
    [class |-> class, required |-> required, allow_none |-> allow_none,
     load_from |-> load_from]

StringContainer == Field("String", FALSE, FALSE, NoKey)

\* the classes ValidateBothWays(fields.String) is the base of
BothWaysClasses == {"ObjectId", "UUID"}

StringClasses == {"String", "ObjectId", "UUID", "URL"}

IsDigits(s) == Len(s) > 0 /\ \A i \in 1..Len(s) : s[i] \in {Digit(n) : n \in 0..9}

DigitVal(c) == CHOOSE n \in 0..9 : Digit(n) = c

RECURSIVE StrToNat(_)
StrToNat(s) ==
    IF Len(s) = 0 THEN 0
    ELSE 10 * StrToNat(SubSeq(s, 1, Len(s) - 1)) + DigitVal(s[Len(s)])

\* a faulty Number._validated: digits only, so a negative number is "invalid"
FormatNum_NonNegative(value) ==
    CASE value.t = "int" /\ value.n >= 0 -> Ok(value)
      [] value.t = "str" /\ IsDigits(value.s) -> Ok(IntV(StrToNat(value.s)))
      [] OTHER -> Fail(<<Msg("invalid")>>)

\* Number._validated: int(value), a TypeError or ValueError reported as "invalid"
FormatNum(value) ==
    CASE value.t = "int" -> Ok(value)
      [] value.t = "str" /\ IsDigits(value.s) -> Ok(IntV(StrToNat(value.s)))
      [] OTHER -> Fail(<<Msg("invalid")>>)

\* Field._validate: the validators the field was constructed with
Validate(field, output) ==
    CASE field.class = "ObjectId" -> IsObjectId(output)
      [] field.class = "UUID" -> IsUUID(output)
      [] field.class = "URL" -> IsURL(output)
      [] OTHER -> Ok(output)

\* Field._validate_missing
ValidateMissing(field, value) ==
    IF value = MISSING /\ field.required THEN Fail(<<Msg("required")>>)
    ELSE IF value = NONE /\ ~field.allow_none THEN Fail(<<Msg("null")>>)
    ELSE Ok(value)

\* fields.String._deserialize
String_deserialize(value) ==
    IF value.t # "str" THEN Fail(<<Msg("invalid")>>) ELSE Ok(value)

\* fields.String._serialize
String_serialize(value) ==
    IF value = NONE THEN Ok(NONE) ELSE Ok(StrV(PyStr(value)))

\* Field.deserialize of the container, on one item
Container_deserialize(item) ==
    LET m == ValidateMissing(StringContainer, item)
    IN IF m.raised # "none" THEN m ELSE String_deserialize(item)

\* fields.List._deserialize: every item through the container, the failing
\* indexes collected into one ValidationError
List_deserialize(value) ==
    IF value.t # "list" THEN Fail(<<Msg("invalid")>>)
    ELSE LET rs == [i \in 1..Len(value.items) |-> Container_deserialize(value.items[i])]
             bad == {i \in 1..Len(value.items) : rs[i].raised # "none"}
         IN IF bad = {}
            THEN Ok(ListV([i \in 1..Len(value.items) |-> rs[i].value]))
            ELSE Fail(<<MsgFor("invalid_items", {ToString(i - 1) : i \in bad})>>)

\* fields.List._serialize
List_serialize(value) ==
    IF value = NONE THEN Ok(NONE)
    ELSE IF value.t = "list"
    THEN Ok(ListV([i \in 1..Len(value.items) |-> String_serialize(value.items[i]).value]))
    ELSE Ok(ListV(<<String_serialize(value).value>>))

\* CommaSeparatedList._deserialize
CommaSeparatedList_deserialize(value, attr, data) ==
    IF value.t # "str" THEN Crash("AttributeError")
    ELSE LET parts == PySplit(value.s, ",")
             items == ListV([i \in 1..Len(parts) |-> StrV(parts[i])])
         IN List_deserialize(items)

\* CommaSeparatedList._serialize
CommaSeparatedList_serialize(value, attr, obj) ==
    LET items == List_serialize(value).value
    IN IF items = NONE THEN Crash("TypeError")
       ELSE Ok(StrV(PyJoin(",", [i \in 1..Len(items.items) |-> PyStr(items.items[i])])))

\* MultiDict.getlist
GetList(data, attr) ==
    IF attr \in DOMAIN data.m THEN ListV(data.m[attr]) ELSE ListV(<<>>)

\* QueryParamList._deserialize
QueryParamList_deserialize(value, attr, data) ==
    IF data.t # "multidict" THEN Crash("AttributeError")
    ELSE List_deserialize(GetList(data, attr))

(***************************************************************************)
(* Schemas.  A schema instance is                                          *)
(*   [name, fields, order, exclude, mixins, both_ways]                     *)
(* fields: the declared fields by name; order: the order in which          *)
(* self.fields is iterated (self.fields is built from a set of names, so   *)
(* the order is the interpreter's); exclude: the instance's exclude        *)
(* argument; mixins: which of the two mixins the class inherits;           *)
(* both_ways: whether the class is ValidateBothWays(<the class>).          *)
(***************************************************************************)
SchemaKey == "_schema"

\* self.fields: the declared fields less the excluded ones (Schema._update_fields)
SelfFields(self) == (DOMAIN self.fields) \ self.exclude

\* the names of self.fields in iteration order
FieldOrder(self) == SelectSeq(self.order, LAMBDA n : n \in SelfFields(self))

\* the schema Nested(schema, many=True) wraps in the fixtures below
ItemSchema ==
    [name |-> "Item",
     fields |-> [n \in {"name"} |-> Field("String", FALSE, FALSE, NoKey)],
     order |-> <<"name">>, exclude |-> {}, mixins |-> {}, both_ways |-> FALSE]

\* data.get(key, missing); on a MultiDict, get returns the first value
Get(data, key) ==
    IF key \notin DOMAIN data.m THEN MISSING
    ELSE IF data.t = "multidict" THEN data.m[key][1]
    ELSE data.m[key]

IsMapping(v) == v.t \in {"dict", "multidict"}

RECURSIVE Schema_dump(_, _)
RECURSIVE Schema_load(_, _)

\* what the per-item results of a nested load or dump add up to
NestedCollect(rs) ==
    IF \E i \in 1..Len(rs) : rs[i].raised # "none"
    THEN Crash((rs[CHOOSE i \in 1..Len(rs) : rs[i].raised # "none"
                                             /\ \A j \in 1..(i - 1) : rs[j].raised = "none"]).raised)
    ELSE IF \A i \in 1..Len(rs) : rs[i].errors = EmptyDict
    THEN Ok(ListV([i \in 1..Len(rs) |-> rs[i].data]))
    ELSE Fail(<<MsgFor("nested", {ToString(i - 1) : i \in {j \in 1..Len(rs) : rs[j].errors # EmptyDict}})>>)

\* fields.Nested(schema, many=True)._deserialize
Nested_deserialize(value) ==
    IF value.t # "list" THEN Fail(<<Msg("type")>>)
    ELSE NestedCollect([i \in 1..Len(value.items) |-> Schema_load(ItemSchema, value.items[i])])

\* fields.Nested(schema, many=True)._serialize
Nested_serialize(value) ==
    IF value = NONE THEN Ok(NONE)
    ELSE NestedCollect([i \in 1..Len(value.items) |-> Schema_dump(ItemSchema, value.items[i])])

\* the class's _deserialize
Class_deserialize(field, value, attr, data) ==
    CASE field.class \in StringClasses -> String_deserialize(value)
      [] field.class = "Integer" -> FormatNum(value)
      [] field.class = "Dict" ->
            IF IsMapping(value) THEN Ok(value) ELSE Fail(<<Msg("invalid")>>)
      [] field.class = "CommaSeparatedList" -> CommaSeparatedList_deserialize(value, attr, data)
      [] field.class = "QueryParamList" -> QueryParamList_deserialize(value, attr, data)
      [] field.class = "NestedItems" -> Nested_deserialize(value)

\* the first of two outcomes unless it is a success, then the second
OrElse(first, second) == IF first.raised # "none" THEN first ELSE second

\* Field._validate on the output of _deserialize; the output is what is returned
ThenValidate(field, d) ==
    IF d.raised # "none" THEN d ELSE OrElse(Validate(field, d.value), d)

\* Field.deserialize: _validate_missing, the allow_none shortcut, _deserialize,
\* then _validate on the output
Field_deserialize(field, value, attr, data) ==
    IF ValidateMissing(field, value).raised # "none" THEN ValidateMissing(field, value)
    ELSE IF value = NONE THEN Ok(NONE)
    ELSE ThenValidate(field, Class_deserialize(field, value, attr, data))

\* the _serialize of the class ValidateBothWays was given (super()._serialize)
Super_serialize(field, value, attr, obj) ==
    CASE field.class \in StringClasses -> String_serialize(value)
      [] field.class = "Integer" -> IF value = NONE THEN Ok(NONE) ELSE FormatNum(value)
      [] field.class = "Dict" -> Ok(value)
      [] field.class = "CommaSeparatedList" -> CommaSeparatedList_serialize(value, attr, obj)
      [] field.class = "QueryParamList" -> List_serialize(value)
      [] field.class = "NestedItems" -> Nested_serialize(value)

\* ValidateBothWays(field).wrapped_serialize: deserialize(value) with no attr and
\* no data, its result dropped, its error let through; then super()._serialize
wrapped_serialize(field, value, attr, obj) ==
    OrElse(Field_deserialize(field, value, NoKey, NONE),
           Super_serialize(field, value, attr, obj))

\* the field's _serialize: the wrapped one for a ValidateBothWays class
Field_serialize(field, value, attr, obj) ==
    IF field.class \in BothWaysClasses
    THEN wrapped_serialize(field, value, attr, obj)
    ELSE Super_serialize(field, value, attr, obj)

(***************************************************************************)
(* The two mixins.  A hook is handed references to the schema and to the   *)
(* data, so what it returns here includes both as it leaves them.          *)
(***************************************************************************)
\* ActuallyRequireOnDumpMixin.require_output_fields: the loop raises at the first
\* field, in iteration order, that is required and absent, or required, not
\* nullable and None
require_output_fields(self, data) ==
    LET order == FieldOrder(self)
        Absent(n) == n \notin DOMAIN data.m
        Empty(n) == ~Absent(n) /\ self.fields[n].allow_none = FALSE /\ data.m[n] = NONE
        hits == {i \in 1..Len(order) :
                    self.fields[order[i]].required /\ (Absent(order[i]) \/ Empty(order[i]))}
    IN IF hits = {}
       THEN [raised |-> "none", msgs |-> <<>>, self |-> self, data |-> data]
       ELSE LET i == CHOOSE i \in hits : \A j \in hits : i <= j
                n == order[i]
            IN [raised |-> "ValidationError",
                msgs |-> IF Absent(n) THEN <<MsgFor("required_field_missing", {n})>>
                         ELSE <<MsgFor("required_field_empty", {n})>>,
                self |-> self, data |-> data]

\* a faulty disallow_extra_fields: the load_from keys are not expected
disallow_extra_fields_NoLoadFrom(self, processed_data, original_data) ==
    IF ~IsMapping(original_data)
    THEN [raised |-> "none", msgs |-> <<>>, self |-> self, original_data |-> original_data]
    ELSE IF ((DOMAIN original_data.m) \ SelfFields(self)) \ self.exclude # {}
    THEN [raised |-> "ValidationError",
          msgs |-> <<MsgFor("unsupported_fields",
                            ((DOMAIN original_data.m) \ SelfFields(self)) \ self.exclude)>>,
          self |-> self, original_data |-> original_data]
    ELSE [raised |-> "none", msgs |-> <<>>, self |-> self, original_data |-> original_data]

\* a faulty disallow_extra_fields: excluded_fields is self.exclude itself, and the
\* unsupported names are added to it
disallow_extra_fields_Remembers(self, processed_data, original_data) ==
    IF ~IsMapping(original_data)
    THEN [raised |-> "none", msgs |-> <<>>, self |-> self, original_data |-> original_data]
    ELSE [raised |-> "none", msgs |-> <<>>,
          self |-> [self EXCEPT !.exclude =
                       @ \cup ((DOMAIN original_data.m) \ SelfFields(self))],
          original_data |-> original_data]

\* DisallowExtraFieldsMixin.disallow_extra_fields
disallow_extra_fields(self, processed_data, original_data) ==
    IF ~IsMapping(original_data)
    THEN [raised |-> "none", msgs |-> <<>>, self |-> self, original_data |-> original_data]
    ELSE LET input_fields == DOMAIN original_data.m
             expected_fields ==
                 SelfFields(self) \cup
                 {self.fields[n].load_from : n \in {m \in SelfFields(self) :
                                                      self.fields[m].load_from # NoKey}}
             excluded_fields == self.exclude
             unsupported_fields == (input_fields \ expected_fields) \ excluded_fields
         IN IF Cardinality(unsupported_fields) > 0
            THEN [raised |-> "ValidationError",
                  msgs |-> <<MsgFor("unsupported_fields", unsupported_fields)>>,
                  self |-> self, original_data |-> original_data]
            ELSE [raised |-> "none", msgs |-> <<>>, self |-> self,
                  original_data |-> original_data]

(***************************************************************************)
(* marshmallow's Schema.load and Schema.dump (not strict): field errors    *)
(* and hook errors are collected into the errors dict; any other           *)
(* exception leaves the call.                                              *)
(***************************************************************************)
\* the first name, in iteration order, of a non-empty set of field names
FirstOf(self, names) ==
    LET order == FieldOrder(self)
        i == CHOOSE i \in 1..Len(order) :
                 order[i] \in names /\ \A j \in 1..(i - 1) : order[j] \notin names
    IN order[i]

\* Unmarshaller: one field of the input
LoadField(self, n, data) ==
    LET f == self.fields[n]
        raw0 == Get(data, n)
        from == raw0 = MISSING /\ f.load_from # NoKey
        raw == IF from THEN Get(data, f.load_from) ELSE raw0
    IN [skip |-> raw = MISSING /\ ~f.required,
        key |-> IF from THEN f.load_from ELSE n,
        r |-> Field_deserialize(f, raw, IF f.load_from # NoKey THEN f.load_from ELSE n, data)]

\* Marshaller: one field of the object
DumpField(self, n, obj) ==
    LET value == Get(obj, n)
    IN [skip |-> value = MISSING,
        key |-> n,
        r |-> IF value = MISSING THEN Ok(MISSING)
              ELSE Field_serialize(self.fields[n], value, n, obj)]

\* what the per-field outcomes add up to: the first exception that is not a
\* ValidationError, or the values and the errors by key
Collect(self, outs) ==
    LET live == {n \in SelfFields(self) : ~outs[n].skip}
        crashed == {n \in live : outs[n].r.raised \notin {"none", "ValidationError"}}
        failed == {n \in live : outs[n].r.raised = "ValidationError"}
        good == {n \in live : outs[n].r.raised = "none"}
    IN IF crashed # {}
       THEN [raised |-> outs[FirstOf(self, crashed)].r.raised, data |-> NONE,
             errors |-> EmptyDict]
       ELSE [raised |-> "none",
             data |-> DictV([n \in good |-> outs[n].r.value]),
             errors |-> [k \in {outs[n].key : n \in failed} |->
                            outs[CHOOSE n \in failed : outs[n].key = k].r.msgs]]

\* errors.setdefault(key, []).extend(msgs)
AddErrors(errors, key, msgs) ==
    DictUpdate(errors, [k \in {key} |-> IF key \in DOMAIN errors THEN errors[key] \o msgs
                                        ELSE msgs])

\* Unmarshaller.deserialize: None stays None, a non-mapping is an error under
\* _schema, a mapping is read field by field
Unmarshal(self, data) ==
    IF data = NONE
    THEN [raised |-> "none", data |-> NONE, errors |-> EmptyDict]
    ELSE IF ~IsMapping(data)
    THEN [raised |-> "none", data |-> NONE,
          errors |-> [k \in {SchemaKey} |-> <<Msg("invalid_input_type")>>]]
    ELSE Collect(self, [n \in SelfFields(self) |-> LoadField(self, n, data)])

\* the outcome of a validates_schema hook added to the unmarshalled result:
\* a ValidationError goes under _schema
AfterValidator(un, h) ==
    [raised |-> "none", data |-> un.data,
     errors |-> IF h.raised = "ValidationError"
                THEN AddErrors(un.errors, SchemaKey, h.msgs)
                ELSE un.errors,
     self |-> h.self, arg |-> h.original_data]

\* Schema._invoke_validators on the unmarshalled result
RunValidators(self, data, un) ==
    IF un.raised # "none"
    THEN [raised |-> un.raised, data |-> NONE, errors |-> EmptyDict,
          self |-> self, arg |-> data]
    ELSE IF "DisallowExtraFields" \in self.mixins
    THEN AfterValidator(un, disallow_extra_fields(self, un.data, data))
    ELSE [raised |-> "none", data |-> un.data, errors |-> un.errors,
          self |-> self, arg |-> data]

Schema_load(self, data) == RunValidators(self, data, Unmarshal(self, data))

\* the outcome of a post_dump hook: a ValidationError replaces the (empty)
\* errors, the marshalled data stays the result
AfterPostDump(obj, h) ==
    [raised |-> "none", data |-> h.data,
     errors |-> IF h.raised = "ValidationError"
                THEN [k \in {SchemaKey} |-> h.msgs]
                ELSE EmptyDict,
     self |-> h.self, arg |-> obj]

\* Schema._invoke_dump_processors(POST_DUMP), run only when marshalling left no
\* errors
RunPostDump(self, obj, m) ==
    IF m.raised # "none"
    THEN [raised |-> m.raised, data |-> NONE, errors |-> EmptyDict,
          self |-> self, arg |-> obj]
    ELSE IF m.errors = EmptyDict /\ "ActuallyRequireOnDump" \in self.mixins
    THEN AfterPostDump(obj, require_output_fields(self, m.data))
    ELSE [raised |-> "none", data |-> m.data, errors |-> m.errors,
          self |-> self, arg |-> obj]

Schema_dump(self, obj) ==
    RunPostDump(self, obj,
                Collect(self, [n \in SelfFields(self) |-> DumpField(self, n, obj)]))

\* a faulty wrapped_dump: the load's errors are not merged
UpdateErrors_Forgotten(unchecked, load) ==
    IF load.raised # "none"
    THEN [raised |-> load.raised, data |-> NONE, errors |-> EmptyDict,
          self |-> load.self, arg |-> unchecked.arg]
    ELSE [raised |-> "none", data |-> unchecked.data, errors |-> unchecked.errors,
          self |-> load.self, arg |-> unchecked.arg]

\* unchecked.errors.update(load.errors); return unchecked
UpdateErrors(unchecked, load) ==
    IF load.raised # "none"
    THEN [raised |-> load.raised, data |-> NONE, errors |-> EmptyDict,
          self |-> load.self, arg |-> unchecked.arg]
    ELSE [raised |-> "none", data |-> unchecked.data,
          errors |-> DictUpdate(unchecked.errors, load.errors),
          self |-> load.self, arg |-> unchecked.arg]

\* load = super().load(unchecked.data), on what super().dump returned
LoadBackDumped(unchecked) ==
    IF unchecked.raised # "none" THEN unchecked
    ELSE UpdateErrors(unchecked, Schema_load(unchecked.self, unchecked.data))

\* ValidateBothWays(schema).wrapped_dump
wrapped_dump(self, object) == LoadBackDumped(Schema_dump(self, object))

\* schema.dump(object) as the caller reaches it
Dump(self, object) ==
    IF self.both_ways THEN wrapped_dump(self, object) ELSE Schema_dump(self, object)

\* schema.load(data) as the caller reaches it
Load(self, data) == Schema_load(self, data)

(***************************************************************************)
(* The schema classes the calls are made on.                               *)
(***************************************************************************)
Perms(S) ==
    {p \in [1..Cardinality(S) -> S] :
        \A i, j \in 1..Cardinality(S) : i # j => p[i] # p[j]}

\* a RequestSchema (DisallowExtraFieldsMixin) with a load_from and an exclude
RequestAB(exclude) ==
    [name |-> "RequestAB",
     fields |-> [n \in {"a", "b"} |->
                    IF n = "a" THEN Field("String", FALSE, FALSE, NoKey)
                    ELSE Field("Integer", FALSE, FALSE, "bee")],
     order |-> <<"a", "b">>, exclude |-> exclude,
     mixins |-> {"DisallowExtraFields"}, both_ways |-> FALSE]

\* a RequestSchema over this layer's fields
RequestQuery ==
    [name |-> "RequestQuery",
     fields |-> [n \in {"tags", "ids", "id"} |->
                    CASE n = "tags" -> Field("CommaSeparatedList", FALSE, FALSE, NoKey)
                      [] n = "ids" -> Field("QueryParamList", FALSE, FALSE, NoKey)
                      [] n = "id" -> Field("ObjectId", FALSE, FALSE, NoKey)],
     order |-> <<"tags", "ids", "id">>, exclude |-> {},
     mixins |-> {"DisallowExtraFields"}, both_ways |-> FALSE]

\* a ResponseSchema (ActuallyRequireOnDumpMixin), plain or ValidateBothWays
ResponseXYZ(both_ways) ==
    [name |-> "ResponseXYZ",
     fields |-> [n \in {"x", "y", "z", "w"} |->
                    CASE n = "x" -> Field("String", TRUE, FALSE, NoKey)
                      [] n = "y" -> Field("String", TRUE, TRUE, NoKey)
                      [] n = "z" -> Field("Integer", TRUE, FALSE, NoKey)
                      [] n = "w" -> Field("String", FALSE, FALSE, NoKey)],
     order |-> <<"x", "y", "z", "w">>, exclude |-> {},
     mixins |-> {"ActuallyRequireOnDump"}, both_ways |-> both_ways]

\* class Error(ResponseSchema)
Error ==
    [name |-> "Error",
     fields |-> [n \in {"message", "code", "details", "errors"} |->
                    CASE n = "message" -> Field("String", TRUE, FALSE, NoKey)
                      [] n = "code" -> Field("String", FALSE, FALSE, NoKey)
                      [] n = "details" -> Field("Dict", FALSE, FALSE, NoKey)
                      [] n = "errors" -> Field("Dict", FALSE, FALSE, NoKey)],
     order |-> <<"message", "code", "details", "errors">>, exclude |-> {},
     mixins |-> {"ActuallyRequireOnDump"}, both_ways |-> FALSE]

\* ListOf(schema, additional_fields): a plain marshmallow.Schema with the field
\* data = Nested(schema, many=True) and the additional fields
ListOf(additional_fields, both_ways) ==
    [name |-> "ListOfItem",
     fields |-> [n \in {"data"} \cup DOMAIN additional_fields |->
                    IF n = "data" THEN Field("NestedItems", FALSE, FALSE, NoKey)
                    ELSE additional_fields[n]],
     order |-> <<"data">>, exclude |-> {}, mixins |-> {}, both_ways |-> both_ways]

\* PaginatedListOf(schema), plain or ValidateBothWays
PaginatedListOf(both_ways) ==
    LET pagination_fields ==
            [n \in {"total_count", "next_page_url"} |->
                IF n = "total_count" THEN Field("Integer", FALSE, FALSE, NoKey)
                ELSE Field("URL", FALSE, TRUE, NoKey)]
    IN ListOf(pagination_fields, both_ways)

SchemaClasses ==
    {RequestAB(ex) : ex \in {{}, {"b"}, {"c"}}}
        \cup {RequestQuery, Error}
        \cup {ResponseXYZ(bw) : bw \in BOOLEAN}
        \cup {PaginatedListOf(bw) : bw \in BOOLEAN}

\* an instance: the class's definition with the iteration order the interpreter
\* gives its fields
Instances ==
    UNION {{[c EXCEPT !.order = o] : o \in Perms(DOMAIN c.fields)} : c \in SchemaClasses}

(***************************************************************************)
(* The values the callers pass.                                            *)
(***************************************************************************)
\* a mapping without the keys whose value is missing
Prune(f) == [k \in {j \in DOMAIN f : f[j] # MISSING} |-> f[k]]

\* a MultiDict without the keys that have no value
PruneLists(f) == [k \in {j \in DOMAIN f : Len(f[j]) > 0} |-> f[k]]

HexCycle == <<"0", "a", "F", "9", "c", "D">>

\* n hexadecimal characters, the one at position bad (if any) replaced by "g"
IdCore(n, bad) ==
    [i \in 1..n |-> IF i = bad THEN "g" ELSE HexCycle[((i - 1) % Len(HexCycle)) + 1]]

Leads == {<<>>, <<"0">>, <<"\n">>}

Trails == {<<>>, <<"\n">>, <<"g">>, <<"\n", "\n">>}

\* strings around the 24 hexadecimal characters of an object id
IdStrings ==
    {<<>>} \cup
    {lead \o IdCore(n, IF bad = 2 THEN n ELSE bad) \o trail :
        lead \in Leads, n \in (ObjectIdLen - MaxDelta)..(ObjectIdLen + MaxDelta),
        bad \in 0..2, trail \in Trails}

ValidId == StrV(IdCore(ObjectIdLen, 0))

\* a canonical UUID with the characters at the positions in bad replaced by "g"
UuidCore(bad) ==
    [i \in 1..Len(UUIDPattern) |->
        IF i \in bad THEN "g"
        ELSE IF UUIDPattern[i] = "h" THEN HexCycle[((i - 1) % Len(HexCycle)) + 1]
        ELSE "-"]

UuidStrings ==
    {<<>>} \cup
    {lead \o UuidCore(bad) \o trail :
        lead \in Leads, bad \in {{}, {1}, {9}, {Len(UUIDPattern)}}, trail \in Trails}

SV == StrV(<<"v">>)

GoodUrl == StrV(UrlScheme \o <<"h">>)

BadUrl == StrV(<<"h">>)

Items == {DictV([k \in {"name"} |-> StrV(<<c>>)]) : c \in {"p", "q"}}

\* the lists of at most MaxItems elements of S
ListsOf(S) == UNION {[1..n -> S] : n \in 0..MaxItems}

\* comma-free strings, the empty one among them
Words == {<<>>, <<"a">>, <<"b", "c">>}

RequestABInputs ==
    {ListV(<<>>)} \cup
    {DictV(Prune([k \in {"a", "b", "bee", "c"} |->
                    CASE k = "a" -> a [] k = "b" -> b [] k = "bee" -> bee [] k = "c" -> c])) :
        a \in {MISSING, SV, IntV(7)}, b \in {MISSING, IntV(1), StrV(<<"g">>)},
        bee \in {MISSING, IntV(2)}, c \in {MISSING, IntV(3)}}

\* a request's query: a plain dict, or a MultiDict (each key with its list of values)
RequestQueryInputs ==
    {IF multi
     THEN MultiDictV(PruneLists([k \in {"tags", "ids", "id", "zz"} |->
              CASE k = "tags" -> IF tags = MISSING THEN <<>> ELSE <<tags>>
                [] k = "ids" -> IF ids THEN <<StrV(<<"x">>), StrV(<<"y">>)>> ELSE <<>>
                [] k = "id" -> IF id = MISSING THEN <<>> ELSE <<id>>
                [] k = "zz" -> IF zz THEN <<SV>> ELSE <<>>]))
     ELSE DictV(Prune([k \in {"tags", "ids", "id", "zz"} |->
              CASE k = "tags" -> tags
                [] k = "ids" -> IF ids THEN ListV(<<StrV(<<"x">>), StrV(<<"y">>)>>) ELSE MISSING
                [] k = "id" -> id
                [] k = "zz" -> IF zz THEN SV ELSE MISSING])) :
        multi \in BOOLEAN, tags \in {MISSING, StrV(<<"a", ",", "b">>), IntV(5)},
        ids \in BOOLEAN, id \in {MISSING, ValidId, StrV(<<"g">>)}, zz \in BOOLEAN}

RequestQueryObjects ==
    {DictV(Prune([k \in {"tags", "ids", "id"} |->
                    CASE k = "tags" -> tags [] k = "ids" -> ids [] k = "id" -> id])) :
        tags \in {MISSING, NONE, ListV(<<>>), ListV(<<StrV(<<"a">>), StrV(<<"b">>)>>)},
        ids \in {MISSING, ListV(<<StrV(<<"x">>)>>)},
        id \in {MISSING, ValidId, StrV(<<"g">>), StrV(ValidId.s \o <<"\n">>)}}

ResponseXYZInputs ==
    {DictV(Prune([k \in {"x", "y", "z", "w"} |->
                    CASE k = "x" -> x [] k = "y" -> y [] k = "z" -> z [] k = "w" -> w])) :
        x \in {MISSING, NONE, SV}, y \in {MISSING, NONE, SV},
        z \in {MISSING, IntV(1), StrV(<<"g">>)}, w \in {MISSING, SV}}

ErrorInputs ==
    {DictV(Prune([k \in {"message", "code", "details"} |->
                    CASE k = "message" -> message [] k = "code" -> code
                      [] k = "details" -> details])) :
        message \in {MISSING, NONE, SV}, code \in {MISSING, SV},
        details \in {MISSING, DictV(EmptyDict), SV}}

PaginatedInputs ==
    {DictV(Prune([k \in {"data", "total_count", "next_page_url"} |->
                    CASE k = "data" -> data [] k = "total_count" -> total_count
                      [] k = "next_page_url" -> next_page_url])) :
        data \in {MISSING} \cup {ListV(l) : l \in ListsOf(Items)},
        total_count \in {MISSING, IntV(-1), IntV(0), IntV(2)},
        next_page_url \in {MISSING, NONE, GoodUrl, BadUrl}}

\* what load is called with, by schema class
LoadInputs(self) ==
    CASE self.name = "RequestAB" -> RequestABInputs
      [] self.name = "RequestQuery" -> RequestQueryInputs
      [] self.name = "ResponseXYZ" -> ResponseXYZInputs
      [] self.name = "Error" -> ErrorInputs
      [] self.name = "ListOfItem" -> PaginatedInputs
      [] self.name = "Item" -> Items

\* what dump is called with, by schema class
DumpInputs(self) ==
    CASE self.name = "RequestAB" -> RequestABInputs \ {ListV(<<>>)}
      [] self.name = "RequestQuery" -> RequestQueryObjects
      [] self.name = "ResponseXYZ" -> ResponseXYZInputs
      [] self.name = "Error" -> ErrorInputs
      [] self.name = "ListOfItem" -> PaginatedInputs
      [] self.name = "Item" -> Items

(***************************************************************************)
(* The state machine: a schema instance, constructed once, and the calls   *)
(* made on it.  last is the call that completed last:                      *)
(*   [op, input, result]          a load or a dump of the schema           *)
(*   [op, field, input, result]   a field's deserialize or _serialize      *)
(* and NoCall once the caller has taken the result: the caller is          *)
(* synchronous and makes its next call after that.                         *)
(***************************************************************************)
NoCall == [op |-> "none"]

Init ==
    /\ schema \in Instances
    /\ last = NoCall

\* a call of op with input has ended with r
Completed(op, input, r) ==
    /\ schema' = r.self
    /\ last' = [op |-> op, input |-> input, result |-> r]

\* schema.load(data)
CallLoad ==
    /\ last = NoCall
    /\ \E data \in LoadInputs(schema) : Completed("load", data, Load(schema, data))

\* schema.dump(object)
CallDump ==
    /\ last = NoCall
    /\ \E object \in DumpInputs(schema) : Completed("dump", object, Dump(schema, object))

\* the caller has looked at the result and is ready for its next call
Return ==
    /\ last # NoCall
    /\ last' = NoCall
    /\ UNCHANGED schema

Next == CallLoad \/ CallDump \/ Return

Spec == Init /\ [][Next]_vars

(***************************************************************************)
(* The fields on their own: deserialize(value, attr, data) and             *)
(* _serialize(value, attr, obj) called on a field instance, as the         *)
(* Unmarshaller and the Marshaller call them.                              *)
(***************************************************************************)
FieldInstances ==
    {Field(class, FALSE, allow_none, NoKey) :
        class \in {"ObjectId", "UUID", "CommaSeparatedList", "QueryParamList"},
        allow_none \in BOOLEAN}

FieldAttr == "f"

\* the query strings a QueryParamList is read from, and a plain dict
QueryData ==
    {MultiDictV([k \in keys |-> IF k = FieldAttr THEN l ELSE <<SV>>]) :
        keys \in SUBSET {FieldAttr, "g"},
        l \in {[i \in 1..n |-> StrV(<<"x">>)] : n \in 1..MaxItems}}
        \cup {DictV([k \in {FieldAttr} |-> SV])}

CsvStrings ==
    {<<>>, <<"a">>, <<"a", ",", "b">>, <<",">>, <<"a", ",", ",", "b", "c">>}

\* [value, data] of a deserialize call, by field class
DeserializeInputs(field) ==
    CASE field.class = "ObjectId" ->
            {[value |-> v, data |-> NONE] : v \in {StrV(s) : s \in IdStrings} \cup {NONE, IntV(5)}}
      [] field.class = "UUID" ->
            {[value |-> v, data |-> NONE] : v \in {StrV(s) : s \in UuidStrings} \cup {NONE, IntV(5)}}
      [] field.class = "CommaSeparatedList" ->
            {[value |-> v, data |-> NONE] :
                v \in {StrV(s) : s \in CsvStrings} \cup {NONE, IntV(5), ListV(<<SV>>)}}
      [] field.class = "QueryParamList" ->
            {[value |-> Get(d, FieldAttr), data |-> d] :
                d \in {q \in QueryData : FieldAttr \in DOMAIN q.m}}

\* the value of a _serialize call, by field class
SerializeInputs(field) ==
    CASE field.class = "ObjectId" -> {StrV(s) : s \in IdStrings} \cup {NONE, IntV(5)}
      [] field.class = "UUID" -> {StrV(s) : s \in UuidStrings} \cup {NONE, IntV(5)}
      [] field.class = "CommaSeparatedList" ->
            {ListV(l) : l \in ListsOf({StrV(w) : w \in Words})}
                \cup {NONE, SV, ListV(<<StrV(<<"a", ",", "b">>)>>)}
      [] field.class = "QueryParamList" ->
            {ListV(l) : l \in ListsOf({StrV(w) : w \in Words})} \cup {NONE}

InitField ==
    /\ schema = ItemSchema
    /\ last = NoCall

\* field.deserialize(value, attr, data)
Deserialize ==
    /\ last = NoCall
    /\ \E field \in FieldInstances :
        \E in \in DeserializeInputs(field) :
            last' = [op |-> "deserialize", field |-> field, input |-> in.value,
                     result |-> Field_deserialize(field, in.value, FieldAttr, in.data)]
    /\ UNCHANGED schema

\* field._serialize(value, attr, obj)
Serialize ==
    /\ last = NoCall
    /\ \E field \in FieldInstances :
        \E value \in SerializeInputs(field) :
            last' = [op |-> "serialize", field |-> field, input |-> value,
                     result |-> Field_serialize(field, value, FieldAttr, NONE)]
    /\ UNCHANGED schema

\* the serialized value handed back to the same field's deserialize
LoadBack ==
    /\ last # NoCall
    /\ last.op = "serialize"
    /\ last.result.raised = "none"
    /\ last.field.class # "QueryParamList"
    /\ last' = [op |-> "roundtrip", field |-> last.field, input |-> last.input,
                dumped |-> last.result.value,
                result |-> Field_deserialize(last.field, last.result.value, FieldAttr, NONE)]
    /\ UNCHANGED schema

NextField == Deserialize \/ Serialize \/ LoadBack \/ Return

FieldSpec == InitField /\ [][NextField]_vars

(***************************************************************************)
(* The claims.                                                             *)
(***************************************************************************)
\* the messages of an errors dict under one key
MessagesAt(errors, key) ==
    IF key \in DOMAIN errors THEN {errors[key][i] : i \in 1..Len(errors[key])} ELSE {}

IsSchemaCall == last # NoCall /\ last.op \in {"load", "dump"}

IsFieldCall == last # NoCall /\ last.op \in {"deserialize", "serialize", "roundtrip"}

\* exactly 24 hexadecimal characters and nothing else
Hex24(v) ==
    /\ v.t = "str"
    /\ Len(v.s) = 24
    /\ \A i \in 1..Len(v.s) : v.s[i] \in HexDigits

InvalidObjectId(r) ==
    r.raised = "ValidationError" /\ r.msgs = <<[k |-> "invalid_object_id", arg |-> {}]>>

C2_SerializeValidatesFirst ==
    (IsFieldCall /\ last.op = "serialize" /\ last.field.class \in BothWaysClasses) =>
        /\ Field_deserialize(last.field, last.input, FieldAttr, NONE).raised # "none" =>
               last.result = Field_deserialize(last.field, last.input, FieldAttr, NONE)
        /\ Field_deserialize(last.field, last.input, FieldAttr, NONE).raised = "none" =>
               last.result = Super_serialize(last.field, last.input, FieldAttr, NONE)
        /\ (last.field.class = "ObjectId" /\ last.input.t = "str" /\ ~Hex24(last.input)) =>
               InvalidObjectId(last.result)

\* C6: ObjectId load succeeds on a string exactly when it is 24 hexadecimal
\* characters and nothing else, fails with invalid_object_id otherwise, and
\* load and dump return an accepted string unchanged.
C6_ObjectIdIffHex24 ==
    (IsFieldCall /\ last.op \in {"deserialize", "serialize"}
        /\ last.field.class = "ObjectId" /\ last.input.t = "str") =>
        /\ last.result.raised = "none" <=> Hex24(last.input)
        /\ ~Hex24(last.input) => InvalidObjectId(last.result)
        /\ Hex24(last.input) => last.result.value = last.input

\* a list of strings none of which holds a comma
CommaFreeList(v) ==
    /\ v.t = "list"
    /\ \A i \in 1..Len(v.items) :
          /\ v.items[i].t = "str"
          /\ \A j \in 1..Len(v.items[i].s) : v.items[i].s[j] # ","

\* C7: a CommaSeparatedList dumped and loaded back is the original list, for
\* every list of comma-free strings, of any length.
C7_CommaSeparatedRoundTrip ==
    (IsFieldCall /\ last.op = "roundtrip" /\ last.field.class = "CommaSeparatedList"
        /\ CommaFreeList(last.input)) =>
        /\ last.result.raised = "none"
        /\ last.result.value = last.input

\* C8: every load and every dump returns a (value, failure) result; no error
\* leaves the call.
C8_NothingRaised ==
    IsSchemaCall => last.result.raised = "none"

\* the raw input's keys the code takes as unsupported: neither a name of
\* self.fields, nor a load_from of one of them, nor an excluded name
Unsupported(self, raw) ==
    ((DOMAIN raw.m) \
        (SelfFields(self) \cup
         {self.fields[n].load_from : n \in {m \in SelfFields(self) :
                                              self.fields[m].load_from # NoKey}}))
        \ self.exclude

\* the raw input's keys outside (declared names and their load_from keys)
\* minus the excluded names
OutsideAcceptable(self, raw) ==
    (DOMAIN raw.m) \
        (((DOMAIN self.fields) \cup
          {self.fields[n].load_from : n \in {m \in DOMAIN self.fields :
                                               self.fields[m].load_from # NoKey}})
         \ self.exclude)

UnsupportedReported(errors) ==
    {m \in MessagesAt(errors, SchemaKey) : m.k = "unsupported_fields"}

DisallowLoad ==
    /\ IsSchemaCall /\ last.op = "load"
    /\ "DisallowExtraFields" \in schema.mixins
    /\ IsMapping(last.input)
    /\ last.result.raised = "none"

Violators(self, data) ==
    {n \in SelfFields(self) :
        /\ self.fields[n].required
        /\ \/ n \notin DOMAIN data.m
           \/ (self.fields[n].allow_none = FALSE /\ data.m[n] = NONE)}

RequireDump ==
    /\ IsSchemaCall /\ last.op = "dump"
    /\ "ActuallyRequireOnDump" \in schema.mixins
    /\ last.result.raised = "none"

\* the message the mixin has for a violating field
ViolationMessage(data, n) ==
    IF n \notin DOMAIN data.m THEN MsgFor("required_field_missing", {n})
    ELSE MsgFor("required_field_empty", {n})

\* C4: after a dump with no failure every required field is in the output and,
\* unless nullable, not None; a required field that is absent yields
\* required_field_missing(name), one that is None and not nullable yields
\* required_field_empty(name).
C4_RequiredOnOutput ==
    RequireDump =>
        /\ last.result.errors = EmptyDict => Violators(schema, last.result.data) = {}
        /\ \A n \in Violators(schema, last.result.data) :
               ViolationMessage(last.result.data, n)
                   \in MessagesAt(last.result.errors, SchemaKey)

\* C5: when more than one required field violates the requirement, the failure
\* the check returns has a message for every one of them.
C5_AllViolationsReported ==
    (RequireDump /\ Cardinality(Violators(schema, last.result.data)) > 1
        /\ SchemaKey \in DOMAIN last.result.errors) =>
        \A n \in Violators(schema, last.result.data) :
            ViolationMessage(last.result.data, n)
                \in MessagesAt(last.result.errors, SchemaKey)

PaginatedCall ==
    /\ IsSchemaCall
    /\ schema.name = "ListOfItem"

HasInt(key) ==
    key \in DOMAIN last.input.m /\ last.input.m[key].t = "int"

\* the call took the input's value under key: no failure, the same value out
Accepted(key) ==
    /\ key \notin DOMAIN last.result.errors
    /\ key \in DOMAIN last.result.data.m
    /\ last.result.data.m[key] = last.input.m[key]

NullUrlAccepted ==
    ("next_page_url" \in DOMAIN last.input.m /\ last.input.m["next_page_url"] = NONE) =>
        Accepted("next_page_url")

\* the data sequence comes out with the same elements, order and count
DataPreserved ==
    ("data" \in DOMAIN last.input.m) =>
        /\ "data" \notin DOMAIN last.result.errors
        /\ "data" \in DOMAIN last.result.data.m
        /\ Len(last.result.data.m["data"].items) = Len(last.input.m["data"].items)
        /\ \A i \in 1..Len(last.input.m["data"].items) :
               last.result.data.m["data"].items[i].m["name"] =
                   last.input.m["data"].items[i].m["name"]

\* C9 as stated: total_count admits only non-negative integers (a negative one
\* is a failure on total_count, every one >= 0 is accepted), next_page_url
\* accepts null, and the data sequence keeps its elements, order and count.
C9_TotalCountNonNegative ==
    PaginatedCall =>
        /\ last.result.raised = "none"
        /\ (HasInt("total_count") /\ last.input.m["total_count"].n < 0) =>
               "total_count" \in DOMAIN last.result.errors
        /\ (HasInt("total_count") /\ last.input.m["total_count"].n >= 0) =>
               Accepted("total_count")
        /\ NullUrlAccepted
        /\ DataPreserved

\* C9 as the code has it: total_count admits every integer, the negative ones
\* too; next_page_url accepts null; the data sequence keeps its elements,
\* order and count.
C9_TotalCountAnyInteger ==
    PaginatedCall =>
        /\ last.result.raised = "none"
        /\ HasInt("total_count") => Accepted("total_count")
        /\ NullUrlAccepted
        /\ DataPreserved

\* C9's case: a dump of two different elements, a negative total_count and a
\* null next_page_url, that ends with no failure.
C9_Witness ==
    /\ PaginatedCall /\ last.op = "dump"
    /\ HasInt("total_count") /\ last.input.m["total_count"].n < 0
    /\ "next_page_url" \in DOMAIN last.input.m /\ last.input.m["next_page_url"] = NONE
    /\ "data" \in DOMAIN last.input.m
    /\ Len(last.input.m["data"].items) = 2
    /\ last.input.m["data"].items[1] # last.input.m["data"].items[2]
    /\ last.result.errors = EmptyDict

====
